---- MODULE Spec2Model ----
(***************************************************************************)
(* A model of the three tutorial programs of the repository:               *)
(*   - src/examples/01_get_start.cpp          (ReLU, "relu")               *)
(*   - src/unnamed/part_000, lines 18..197    (memory format propagation,  *)
(*                                              "mfp")                     *)
(*   - src/unnamed/part_000, lines 198..399   (INT8 matmul, "matmul")      *)
(* One behaviour is one run of one program (prog), from the first          *)
(* statement of its tutorial function to the process exit.  The library    *)
(* the programs call is not part of the repository: what it reports        *)
(* (preferred layouts) and what it computes (results) are inputs, drawn    *)
(* from small sets.                                                        *)
(***************************************************************************)
EXTENDS Integers, Sequences, FiniteSets, TLC

VARIABLES
    prog,          \* which program runs: "relu", "mfp" or "matmul"
    pc,            \* position in the program
    exit_status,   \* -1 while running, then the status the process ends with
    reason,        \* message of the exception that ended the program, or ""
    stream_log,    \* what was submitted to / asked of the stream(s), in order
    \* ---- ReLU example
    shape,         \* [N, H, W, C]
    image,         \* std::vector<float> image, in thousandths
    src_md,        \* descriptor built from format_tag::nhwc
    alt_src_md,    \* descriptor built from the explicit strides
    relu_src,      \* contents of src_mem, in thousandths
    relu_dst,      \* contents of dst_mem, in thousandths
    relu_image,    \* std::vector<float> relu_image, in thousandths
    k,             \* number of iterations of the check loop already done
    off,           \* the last value of `off` in the check loop
    \* ---- all examples
    mem,           \* buffer id -> [state, layout, data]: the memory objects
    \* ---- memory format propagation example
    conv_src_fmt, conv_weights_fmt, conv_dst_fmt, pool_dst_fmt,
                   \* conv_pd.src_desc(), .weights_desc(), .dst_desc(),
                   \* pool_pd.dst_desc()
    conv_src_mem, conv_weights_mem, conv_dst_mem, pool_dst_mem,
                   \* handles: the id of the buffer each memory object names
    conv_read,     \* what the convolution found in its two inputs
    \* ---- INT8 matmul example
    run,           \* index into the list of M values, 1..Len(MList)
    rc,            \* int rc of inference_int8_matmul
    C_u8           \* the destination of the matmul, a sample of its elements

vars == <<prog, pc, exit_status, reason, stream_log, shape, image, src_md,
          alt_src_md, relu_src, relu_dst, relu_image, k, off, mem, conv_src_fmt, conv_weights_fmt,
          conv_dst_fmt, pool_dst_fmt, conv_src_mem, conv_weights_mem,
          conv_dst_mem, pool_dst_mem, conv_read, run, rc, C_u8>>

reluVars == <<shape, image, src_md, alt_src_md, relu_src, relu_dst,
              relu_image, k, off>>
mfpVars == <<conv_src_fmt, conv_weights_fmt, conv_dst_fmt, pool_dst_fmt,
             conv_src_mem, conv_weights_mem, conv_dst_mem, pool_dst_mem,
             conv_read>>
matmulVars == <<run, rc, C_u8>>

----------------------------------------------------------------------------
\* Bounds of the model.

\* Besides the program's own shape, every shape with extents 1..MaxDim.
MaxDim == 2
\* The library's ReLU result may differ from the right one at one position
\* below MaxFault (or nowhere).
MaxFault == 4
\* Number of elements of C_u8 the model keeps.
CLen == 2

----------------------------------------------------------------------------
\* Program constants.

ReluN == 1
ReluH == 13
ReluW == 13
ReluC == 3
zp_C == 40
\* Exit status of a process ended by std::terminate (SIGABRT) or by a
\* memory fault (SIGSEGV), as a shell reports them.
SIGABRT_STATUS == 134
SIGSEGV_STATUS == 139

ProgShape == [N |-> ReluN, H |-> ReluH, W |-> ReluW, C |-> ReluC]

Shapes ==
    {ProgShape} \cup
    [N : 1..MaxDim, H : 1..MaxDim, W : 1..MaxDim, C : 1..MaxDim]

----------------------------------------------------------------------------
\* The stream.  An entry is a step submitted with execute(), a wait(), or a
\* read of a buffer by the host.

BufIds ==
    {"src_mem", "weights_mem", "dst_mem", "conv_src_new", "conv_weights_new",
     "conv_dst_new", "pool_dst_new",
     "B_f32_mem", "B_s8_mem", "A_u8_mem", "C_u8_mem"}

Step(op, from, to) == [op |-> op, from |-> from, to |-> to]
WaitEntry == Step("wait", {}, {})
HostRead(b) == Step("host_read", {b}, {})

IsStep(e) == e.op \notin {"wait", "host_read"}

\* No wait at the positions i+1 .. j-1 of the log.
NoWaitBetween(log, i, j) == \A m \in (i + 1)..(j - 1) : log[m].op # "wait"

\* Steps submitted and not yet followed by a wait.
Pending(log) ==
    {log[i] : i \in {j \in DOMAIN log :
                       IsStep(log[j]) /\ NoWaitBetween(log, j, Len(log) + 1)}}

\* <<producer, consumer, buffer>>: the consumer (a step, or the host) read
\* the buffer the producer wrote, with no wait between the two.
UnsyncedReads(log) ==
    {<<log[i].op, log[j].op, b>> :
        <<i, j, b>> \in
            {x \in (DOMAIN log) \X (DOMAIN log) \X BufIds :
                /\ x[1] < x[2]
                /\ IsStep(log[x[1]])
                /\ x[3] \in log[x[1]].to
                /\ x[3] \in log[x[2]].from
                /\ NoWaitBetween(log, x[1], x[2])}}

----------------------------------------------------------------------------
\* ReLU example: strides, offset, descriptors.

image_size(s) == s.N * s.H * s.W * s.C
stride_N(s) == s.H * s.W * s.C
\* (mutant of stride_H: the channel extent forgotten)
stride_H_noC(s) == s.W
stride_H(s) == s.W * s.C
stride_W(s) == s.C
stride_C(s) == 1

\* auto offset = [=](int n, int h, int w, int c) {...}
offset(s, n, h, w, c) ==
    n * stride_N(s) + h * stride_H(s) + w * stride_W(s) + stride_C(s)

\* The index tuple of the i-th iteration (i = 0, 1, ...) of the loop nest
\* for n / for h / for w / for c.
LoopIndex(s, i) ==
    [n |-> i \div (s.C * s.W * s.H),
     h |-> (i \div (s.C * s.W)) % s.H,
     w |-> (i \div s.C) % s.W,
     c |-> i % s.C]

LoopOffset(s, i) ==
    LET t == LoopIndex(s, i) IN offset(s, t.n, t.h, t.w, t.c)

\* cos(x) for x in thousandths of a radian, in thousandths.
CosMilli(x) ==
    LET r0 == x % 6283
        r1 == IF r0 > 3142 THEN 6283 - r0 ELSE r0
        neg == r1 > 1571
        r == IF neg THEN 3142 - r1 ELSE r1
        r2 == (r * r) \div 1000
        r4 == (r2 * r2) \div 1000
        r6 == (r4 * r2) \div 1000
        c == 1000 - (r2 \div 2) + (r4 \div 24) - (r6 \div 720)
    IN  IF neg THEN 0 - c ELSE c

\* -std::cos(off / 10.f)
InitValue(o) == 0 - CosMilli(o * 100)

\* strides of a named format: perm lists the logical dimensions from the
\* outermost to the innermost; the innermost has stride 1 and each other
\* dimension the product of the extents of the dimensions inside it.
RECURSIVE InnerProduct(_, _, _)
InnerProduct(dims, perm, i) ==
    IF i > Len(perm) THEN 1
    ELSE dims[perm[i]] * InnerProduct(dims, perm, i + 1)

PositionIn(perm, d) == CHOOSE i \in 1..Len(perm) : perm[i] = d

FormatPerm(tag) ==
    IF tag = "nhwc" THEN <<1, 3, 4, 2>>
    ELSE <<1, 2, 3, 4>>   \* nchw

make_canonical(dims, tag) ==
    [dims |-> dims,
     strides |-> [d \in 1..Len(dims) |->
                    InnerProduct(dims, FormatPerm(tag),
                                 PositionIn(FormatPerm(tag), d) + 1)]]

\* No descriptor yet.
NoDesc == [dims |-> <<>>, strides |-> <<>>]

make_strided(dims, strides) == [dims |-> dims, strides |-> strides]

\* {N, C, H, W}
LogicalDims(s) == <<s.N, s.C, s.H, s.W>>
\* {stride_N, stride_C, stride_H, stride_W}
AltStrides(s) == <<stride_N(s), stride_C(s), stride_H(s), stride_W(s)>>

Max0(v) == IF v < 0 THEN 0 ELSE v

Faults(s) == {-1} \cup {p \in 0..(image_size(s) - 1) : p < MaxFault}

Zeros(s) == [p \in 0..(image_size(s) - 1) |-> 0]
NoVector == [p \in {} |-> 0]

----------------------------------------------------------------------------
\* Buffers (dnnl::memory objects).  state is "none" before the object is
\* created, "live" while it exists and "released" once the last handle to
\* it has gone out of scope.

NoData == [tensor |-> "none", fmt |-> "none"]
NoBuffer == [state |-> "none", layout |-> "none", data |-> NoData]
Buffer(layout, data) == [state |-> "live", layout |-> layout, data |-> data]
Released(b) == [b EXCEPT !.state = IF @ = "live" THEN "released" ELSE @]

\* Append an entry to the stream.
Submit(e) == stream_log' = Append(stream_log, e)

\* An exception nobody catches: std::terminate.
Terminate(msg) ==
    /\ reason' = msg
    /\ pc' = "done"
    /\ exit_status' = SIGABRT_STATUS

----------------------------------------------------------------------------
Init ==
    /\ prog \in {"relu", "mfp", "matmul"}
    /\ pc = IF prog = "relu" THEN "r_init"
            ELSE IF prog = "mfp" THEN "f_pd" ELSE "m_reorder"
    /\ exit_status = -1
    /\ reason = ""
    /\ stream_log = <<>>
    /\ shape \in (IF prog = "relu" THEN Shapes ELSE {ProgShape})
    /\ image = IF prog = "relu" THEN Zeros(shape) ELSE NoVector
    /\ src_md = NoDesc
    /\ alt_src_md = NoDesc
    /\ relu_src = NoVector
    /\ relu_dst = NoVector
    /\ relu_image = NoVector
    /\ k = 0
    /\ off = -1
    /\ mem = [b \in BufIds |-> NoBuffer]
    /\ conv_src_fmt = "none"
    /\ conv_weights_fmt = "none"
    /\ conv_dst_fmt = "none"
    /\ pool_dst_fmt = "none"
    /\ conv_src_mem = "none"
    /\ conv_weights_mem = "none"
    /\ conv_dst_mem = "none"
    /\ pool_dst_mem = "none"
    /\ conv_read = [src |-> NoData, weights |-> NoData]
    /\ run = 1
    /\ rc = 0
    /\ C_u8 = <<>>

----------------------------------------------------------------------------
\* ReLU example (src/examples/01_get_start.cpp).

\* The offsets the initialisation loop computes.
InitOffsets(s) == {LoopOffset(s, i) : i \in 0..(image_size(s) - 1)}

\* Lines 45..57.  An offset beyond the vector is undefined behaviour: the
\* build either faults or stores outside the vector and goes on.
InitImage ==
    /\ prog = "relu" /\ pc = "r_init"
    /\ LET size == image_size(shape)
           stored == [p \in 0..(size - 1) |->
                        IF p \in InitOffsets(shape) THEN InitValue(p) ELSE 0]
       IN  \/ /\ image' = stored
              /\ pc' = "r_desc"
              /\ UNCHANGED <<exit_status, reason>>
           \/ /\ \E o \in InitOffsets(shape) : o >= size
              /\ image' = stored
              /\ pc' = "done"
              /\ exit_status' = SIGSEGV_STATUS
              /\ UNCHANGED reason
    /\ UNCHANGED <<prog, stream_log, shape, src_md, alt_src_md, relu_src,
                   relu_dst, relu_image, k, off, mem>>
    /\ UNCHANGED <<mfpVars, matmulVars>>

\* Lines 65..80.
CreateDescs ==
    /\ prog = "relu" /\ pc = "r_desc"
    /\ src_md' = make_canonical(LogicalDims(shape), "nhwc")
    /\ alt_src_md' = make_strided(LogicalDims(shape), AltStrides(shape))
    /\ IF src_md' # alt_src_md'
       THEN Terminate("Memory descriptor initialization mismatch.")
       ELSE /\ pc' = "r_mem"
            /\ UNCHANGED <<exit_status, reason>>
    /\ UNCHANGED <<prog, stream_log, shape, image, relu_src, relu_dst,
                   relu_image, k, off, mem>>
    /\ UNCHANGED <<mfpVars, matmulVars>>

\* Lines 83..86: src_mem holds a copy of image; dst_mem is overwritten as a
\* whole by the primitive before anything reads it.
CreateMemory ==
    /\ prog = "relu" /\ pc = "r_mem"
    /\ relu_src' = image
    /\ relu_dst' = Zeros(shape)
    /\ mem' = [mem EXCEPT
                 !["src_mem"] = Buffer("nhwc", [tensor |-> "image", fmt |-> "nhwc"]),
                 !["dst_mem"] = Buffer("nhwc", NoData)]
    /\ pc' = "r_exec"
    /\ UNCHANGED <<prog, exit_status, reason, stream_log, shape, image, src_md,
                   alt_src_md, relu_image, k, off>>
    /\ UNCHANGED <<mfpVars, matmulVars>>

\* Lines 94..111.  The result is the library's: right everywhere, or off by
\* one unit at position f.
ExecuteRelu ==
    /\ prog = "relu" /\ pc = "r_exec"
    /\ \E f \in Faults(shape) :
         relu_dst' = [p \in DOMAIN relu_src |->
                        Max0(relu_src[p]) + (IF p = f THEN 1000 ELSE 0)]
    /\ mem' = [mem EXCEPT !["dst_mem"].data = [tensor |-> "relu", fmt |-> "nhwc"]]
    /\ Submit(Step("relu", {"src_mem"}, {"dst_mem"}))
    /\ pc' = "r_wait"
    /\ UNCHANGED <<prog, exit_status, reason, shape, image, src_md, alt_src_md,
                   relu_src, relu_image, k, off>>
    /\ UNCHANGED <<mfpVars, matmulVars>>

\* Line 112.
ReluWait ==
    /\ prog = "relu" /\ pc = "r_wait"
    /\ Submit(WaitEntry)
    /\ pc' = "r_read"
    /\ UNCHANGED <<prog, exit_status, reason, mem>>
    /\ UNCHANGED <<reluVars, mfpVars, matmulVars>>

\* Lines 116..117.
ReadResult ==
    /\ prog = "relu" /\ pc = "r_read"
    /\ relu_image' = relu_dst
    /\ Submit(HostRead("dst_mem"))
    /\ pc' = "r_check"
    /\ UNCHANGED <<prog, exit_status, reason, shape, image, src_md, alt_src_md,
                   relu_src, relu_dst, k, off, mem>>
    /\ UNCHANGED <<mfpVars, matmulVars>>

\* Lines 120..136, one iteration.  Reading beyond the vectors is undefined
\* behaviour: a fault, or two values that compare equal or unequal.
CheckStep ==
    /\ prog = "relu" /\ pc = "r_check"
    /\ k < image_size(shape)
    /\ off' = LoopOffset(shape, k)
    /\ LET mismatch == "Accuracy check failed."
           go_on == /\ k' = k + 1
                    /\ pc' = IF k + 1 = image_size(shape) THEN "r_ret" ELSE "r_check"
                    /\ UNCHANGED <<exit_status, reason>>
       IN  IF off' >= image_size(shape)
           THEN \/ go_on
                \/ Terminate(mismatch) /\ UNCHANGED k
                \/ /\ pc' = "done"
                   /\ exit_status' = SIGSEGV_STATUS
                   /\ UNCHANGED <<reason, k>>
           ELSE IF relu_image[off'] # Max0(image[off'])
                THEN Terminate(mismatch) /\ UNCHANGED k
                ELSE go_on
    /\ UNCHANGED <<prog, stream_log, shape, image, src_md, alt_src_md,
                   relu_src, relu_dst, relu_image, mem>>
    /\ UNCHANGED <<mfpVars, matmulVars>>

\* Lines 140 and 158..161: the tutorial returns, its memory objects go out
\* of scope, main returns exit_code = 0.
ReluReturn ==
    /\ prog = "relu" /\ pc = "r_ret"
    /\ mem' = [b \in BufIds |-> Released(mem[b])]
    /\ exit_status' = 0
    /\ pc' = "done"
    /\ UNCHANGED <<prog, reason, stream_log>>
    /\ UNCHANGED <<reluVars, mfpVars, matmulVars>>

ReluNext ==
    \/ InitImage
    \/ CreateDescs
    \/ CreateMemory
    \/ ExecuteRelu
    \/ ReluWait
    \/ ReadResult
    \/ CheckStep
    \/ ReluReturn

----------------------------------------------------------------------------
\* Memory format propagation example (src/unnamed/part_000, lines 44..182).

\* The layouts the library may report for an activation tensor and for the
\* weights ("nchw" and "oihw" are the user's).
ActFmts == {"nchw", "nhwc", "nChw16c"}
WeiFmts == {"oihw", "Acdb32a", "OIhw16i16o"}

\* Lines 55..97: both primitive descriptors are created with
\* format_tag::any; the library reports the layouts it chose.
CreatePrimitiveDescs ==
    /\ prog = "mfp" /\ pc = "f_pd"
    /\ conv_src_fmt' \in ActFmts
    /\ conv_weights_fmt' \in WeiFmts
    /\ conv_dst_fmt' \in ActFmts
    /\ pool_dst_fmt' \in ActFmts
    /\ pc' = "f_user"
    /\ UNCHANGED <<prog, exit_status, reason, stream_log, mem, conv_src_mem,
                   conv_weights_mem, conv_dst_mem, pool_dst_mem, conv_read>>
    /\ UNCHANGED <<reluVars, matmulVars>>

\* Lines 100..116.
CreateUserMemory ==
    /\ prog = "mfp" /\ pc = "f_user"
    /\ mem' = [mem EXCEPT
                 !["src_mem"] = Buffer("nchw", [tensor |-> "src", fmt |-> "nchw"]),
                 !["weights_mem"] =
                     Buffer("oihw", [tensor |-> "weights", fmt |-> "oihw"]),
                 !["dst_mem"] = Buffer("nchw", NoData)]
    /\ pc' = "f_alloc"
    /\ UNCHANGED <<prog, exit_status, reason, stream_log>>
    /\ UNCHANGED <<reluVars, mfpVars, matmulVars>>

\* Lines 119..121.
need_reorder_src == conv_src_fmt # mem["src_mem"].layout
need_reorder_weights == conv_weights_fmt # mem["weights_mem"].layout
need_reorder_dst == conv_dst_fmt # mem["dst_mem"].layout

\* Lines 124..127.
AllocateIntermediate ==
    /\ prog = "mfp" /\ pc = "f_alloc"
    /\ conv_src_mem' = IF need_reorder_dst THEN "conv_src_new" ELSE "src_mem"
    /\ conv_weights_mem' =
           IF need_reorder_weights THEN "conv_weights_new" ELSE "weights_mem"
    /\ conv_dst_mem' = "conv_dst_new"
    /\ pool_dst_mem' = IF need_reorder_dst THEN "pool_dst_new" ELSE "dst_mem"
    /\ mem' = [b \in BufIds |->
                 IF b = "conv_src_new" /\ need_reorder_dst
                 THEN Buffer(conv_src_fmt, NoData)
                 ELSE IF b = "conv_weights_new" /\ need_reorder_weights
                 THEN Buffer(conv_weights_fmt, NoData)
                 ELSE IF b = "conv_dst_new"
                 THEN Buffer(conv_dst_fmt, NoData)
                 ELSE IF b = "pool_dst_new" /\ need_reorder_dst
                 THEN Buffer(pool_dst_fmt, NoData)
                 ELSE mem[b]]
    /\ pc' = "f_rsrc"
    /\ UNCHANGED <<prog, exit_status, reason, stream_log, conv_src_fmt,
                   conv_weights_fmt, conv_dst_fmt, pool_dst_fmt, conv_read>>
    /\ UNCHANGED <<reluVars, matmulVars>>

\* What a reorder created for (from, to) leaves in the buffer it is given as
\* DNNL_ARG_TO: the source's tensor, laid out as `to` is.
Reordered(from, to) == [tensor |-> mem[from].data.tensor, fmt |-> mem[to].layout]

\* Lines 130..136: reorder(src_mem, conv_src_mem), executed with
\* DNNL_ARG_FROM = src_mem and DNNL_ARG_TO = conv_weights_mem.
ReorderSrc ==
    /\ prog = "mfp" /\ pc = "f_rsrc"
    /\ need_reorder_src
    /\ Submit(Step("reorder_src", {"src_mem"}, {conv_weights_mem}))
    /\ mem' = [mem EXCEPT
                 ![conv_weights_mem].data = Reordered("src_mem", conv_src_mem)]
    /\ pc' = "f_rsrc_wait"
    /\ UNCHANGED <<prog, exit_status, reason>>
    /\ UNCHANGED <<reluVars, mfpVars, matmulVars>>

\* Line 137.
ReorderSrcWait ==
    /\ prog = "mfp" /\ pc = "f_rsrc_wait"
    /\ Submit(WaitEntry)
    /\ pc' = "f_rwei"
    /\ UNCHANGED <<prog, exit_status, reason, mem>>
    /\ UNCHANGED <<reluVars, mfpVars, matmulVars>>

\* Line 130, the condition false.
SkipReorderSrc ==
    /\ prog = "mfp" /\ pc = "f_rsrc"
    /\ ~need_reorder_src
    /\ pc' = "f_rwei"
    /\ UNCHANGED <<prog, exit_status, reason, stream_log, mem>>
    /\ UNCHANGED <<reluVars, mfpVars, matmulVars>>

\* Lines 140..145.
ReorderWeights ==
    /\ prog = "mfp" /\ pc = "f_rwei"
    /\ need_reorder_weights
    /\ Submit(Step("reorder_weights", {"weights_mem"}, {conv_weights_mem}))
    /\ mem' = [mem EXCEPT
                 ![conv_weights_mem].data =
                     Reordered("weights_mem", conv_weights_mem)]
    /\ pc' = "f_rwei_wait"
    /\ UNCHANGED <<prog, exit_status, reason>>
    /\ UNCHANGED <<reluVars, mfpVars, matmulVars>>

\* (mutant of ReorderWeightsWait: the wait left out)
ReorderWeightsNoWait ==
    /\ prog = "mfp" /\ pc = "f_rwei_wait"
    /\ pc' = "f_conv"
    /\ UNCHANGED <<prog, exit_status, reason, stream_log, mem>>
    /\ UNCHANGED <<reluVars, mfpVars, matmulVars>>

\* Line 146.
ReorderWeightsWait ==
    /\ prog = "mfp" /\ pc = "f_rwei_wait"
    /\ Submit(WaitEntry)
    /\ pc' = "f_conv"
    /\ UNCHANGED <<prog, exit_status, reason, mem>>
    /\ UNCHANGED <<reluVars, mfpVars, matmulVars>>

\* Line 140, the condition false.
SkipReorderWeights ==
    /\ prog = "mfp" /\ pc = "f_rwei"
    /\ ~need_reorder_weights
    /\ pc' = "f_conv"
    /\ UNCHANGED <<prog, exit_status, reason, stream_log, mem>>
    /\ UNCHANGED <<reluVars, mfpVars, matmulVars>>

\* Lines 150..157.  The result is the convolution of the user's data only
\* if both inputs hold that data in the layout the primitive was built for.
Conv ==
    /\ prog = "mfp" /\ pc = "f_conv"
    /\ conv_read' = [src |-> mem[conv_src_mem].data,
                     weights |-> mem[conv_weights_mem].data]
    /\ Submit(Step("conv", {conv_src_mem, conv_weights_mem}, {conv_dst_mem}))
    /\ mem' = [mem EXCEPT
                 ![conv_dst_mem].data =
                     [tensor |->
                        IF /\ conv_read'.src = [tensor |-> "src", fmt |-> conv_src_fmt]
                           /\ conv_read'.weights =
                                  [tensor |-> "weights", fmt |-> conv_weights_fmt]
                        THEN "conv" ELSE "garbage",
                      fmt |-> conv_dst_fmt]]
    /\ pc' = "f_pool"
    /\ UNCHANGED <<prog, exit_status, reason, conv_src_fmt, conv_weights_fmt,
                   conv_dst_fmt, pool_dst_fmt, conv_src_mem, conv_weights_mem,
                   conv_dst_mem, pool_dst_mem>>
    /\ UNCHANGED <<reluVars, matmulVars>>

\* Lines 159..165.
Pool ==
    /\ prog = "mfp" /\ pc = "f_pool"
    /\ Submit(Step("pool", {conv_dst_mem}, {pool_dst_mem}))
    /\ mem' = [mem EXCEPT
                 ![pool_dst_mem].data =
                     [tensor |-> IF mem[conv_dst_mem].data.tensor = "conv"
                                 THEN "pool" ELSE "garbage",
                      fmt |-> pool_dst_fmt]]
    /\ pc' = "f_pool_wait"
    /\ UNCHANGED <<prog, exit_status, reason>>
    /\ UNCHANGED <<reluVars, mfpVars, matmulVars>>

\* Line 166.
PoolWait ==
    /\ prog = "mfp" /\ pc = "f_pool_wait"
    /\ Submit(WaitEntry)
    /\ pc' = "f_rdst"
    /\ UNCHANGED <<prog, exit_status, reason, mem>>
    /\ UNCHANGED <<reluVars, mfpVars, matmulVars>>

\* Lines 169..176.
ReorderDst ==
    /\ prog = "mfp" /\ pc = "f_rdst"
    /\ need_reorder_dst
    /\ Submit(Step("reorder_dst", {pool_dst_mem}, {"dst_mem"}))
    /\ mem' = [mem EXCEPT !["dst_mem"].data = Reordered(pool_dst_mem, "dst_mem")]
    /\ pc' = "f_ret"
    /\ UNCHANGED <<prog, exit_status, reason>>
    /\ UNCHANGED <<reluVars, mfpVars, matmulVars>>

\* Line 169, the condition false.
SkipReorderDst ==
    /\ prog = "mfp" /\ pc = "f_rdst"
    /\ ~need_reorder_dst
    /\ pc' = "f_ret"
    /\ UNCHANGED <<prog, exit_status, reason, stream_log, mem>>
    /\ UNCHANGED <<reluVars, mfpVars, matmulVars>>

\* Lines 177..182: the tutorial returns, every memory object and the stream
\* go out of scope, main returns the status of a run without exception.
MfpReturn ==
    /\ prog = "mfp" /\ pc = "f_ret"
    /\ mem' = [b \in BufIds |-> Released(mem[b])]
    /\ exit_status' = 0
    /\ pc' = "done"
    /\ UNCHANGED <<prog, reason, stream_log>>
    /\ UNCHANGED <<reluVars, mfpVars, matmulVars>>

MfpNext ==
    \/ CreatePrimitiveDescs
    \/ CreateUserMemory
    \/ AllocateIntermediate
    \/ ReorderSrc
    \/ ReorderSrcWait
    \/ SkipReorderSrc
    \/ ReorderWeights
    \/ ReorderWeightsWait
    \/ SkipReorderWeights
    \/ Conv
    \/ Pool
    \/ PoolWait
    \/ ReorderDst
    \/ SkipReorderDst
    \/ MfpReturn

----------------------------------------------------------------------------
\* INT8 matmul example (src/unnamed/part_000, lines 326..399).

\* for (int64_t M : {1, 100})
MList == <<1, 100>>

\* Values an element of C_u8 may have after the matmul, around zp_C.
CVals == {zp_C - 1, zp_C, zp_C + 1}

\* Lines 362..377.
PrepackWeights ==
    /\ prog = "matmul" /\ pc = "m_reorder"
    /\ mem' = [mem EXCEPT
                 !["B_f32_mem"] = Buffer("ab", [tensor |-> "B", fmt |-> "ab"]),
                 !["B_s8_mem"] = Buffer("any", [tensor |-> "B", fmt |-> "any"])]
    /\ Submit(Step("reorder_B", {"B_f32_mem"}, {"B_s8_mem"}))
    /\ pc' = "m_reorder_wait"
    /\ UNCHANGED <<prog, exit_status, reason>>
    /\ UNCHANGED <<reluVars, mfpVars, matmulVars>>

\* Lines 378..379: wait, then B_f32_mem and the stream go out of scope.
PrepackWait ==
    /\ prog = "matmul" /\ pc = "m_reorder_wait"
    /\ Submit(WaitEntry)
    /\ mem' = [mem EXCEPT !["B_f32_mem"] = Released(@)]
    /\ pc' = "m_exec"
    /\ UNCHANGED <<prog, exit_status, reason>>
    /\ UNCHANGED <<reluVars, mfpVars, matmulVars>>

\* Lines 328..351, for M = MList[run]; the result is the library's.
InferExecute ==
    /\ prog = "matmul" /\ pc = "m_exec"
    /\ run <= Len(MList)
    /\ mem' = [mem EXCEPT
                 !["A_u8_mem"] = Buffer("ab", [tensor |-> "A", fmt |-> "ab"]),
                 !["C_u8_mem"] = Buffer("ab", [tensor |-> "C", fmt |-> "ab"])]
    /\ Submit(Step("matmul", {"A_u8_mem", "B_s8_mem"}, {"C_u8_mem"}))
    /\ C_u8' \in [1..CLen -> CVals]
    /\ pc' = "m_wait"
    /\ UNCHANGED <<prog, exit_status, reason, run, rc>>
    /\ UNCHANGED <<reluVars, mfpVars>>

\* Line 352.
InferWait ==
    /\ prog = "matmul" /\ pc = "m_wait"
    /\ Submit(WaitEntry)
    /\ pc' = "m_check"
    /\ UNCHANGED <<prog, exit_status, reason, mem>>
    /\ UNCHANGED <<reluVars, mfpVars, matmulVars>>

\* int infer(...): 1 if some element is below zp_C, else 0.
InferResult(c) == IF \E i \in DOMAIN c : c[i] < zp_C THEN 1 ELSE 0

\* rc |= x, for rc and x in {0, 1}.
BitOr(a, b) == IF a = 1 \/ b = 1 THEN 1 ELSE 0

\* Lines 355..358 and 384..385: the check of infer, its return (A_u8_mem
\* and C_u8_mem go out of scope), rc |= ..., and the next M if any.
InferCheck ==
    /\ prog = "matmul" /\ pc = "m_check"
    /\ Submit(HostRead("C_u8_mem"))
    /\ rc' = BitOr(rc, InferResult(C_u8))
    /\ mem' = [mem EXCEPT !["A_u8_mem"] = Released(@),
                          !["C_u8_mem"] = Released(@)]
    /\ run' = run + 1
    /\ pc' = IF run < Len(MList) THEN "m_exec" ELSE "m_main"
    /\ UNCHANGED <<prog, exit_status, reason, C_u8>>
    /\ UNCHANGED <<reluVars, mfpVars>>

\* Lines 387..398: inference_int8_matmul returns rc; main prints "failed"
\* or "passed" and returns 0.
MatmulMain ==
    /\ prog = "matmul" /\ pc = "m_main"
    /\ mem' = [b \in BufIds |-> Released(mem[b])]
    /\ exit_status' = 0
    /\ pc' = "done"
    /\ UNCHANGED <<prog, reason, stream_log>>
    /\ UNCHANGED <<reluVars, mfpVars, matmulVars>>

MatmulNext ==
    \/ PrepackWeights
    \/ PrepackWait
    \/ InferExecute
    \/ InferWait
    \/ InferCheck
    \/ MatmulMain

Next == ReluNext \/ MfpNext \/ MatmulNext

Spec == Init /\ [][Next]_vars

----------------------------------------------------------------------------
\* Properties.

ReluStarted == prog = "relu" /\ pc # "r_init"
MismatchMsg == "Memory descriptor initialization mismatch."
AccuracyMsg == "Accuracy check failed."

\* C1: for every shape, the descriptor built from the tag nhwc and the one
\* built from {stride_N, stride_C, stride_H, stride_W} have the same dims
\* and element-wise the same strides, and the "Memory descriptor
\* initialization mismatch." error is never raised.
C1_CanonicalEqualsStrided ==
    /\ reason # MismatchMsg
    /\ src_md # NoDesc =>
         /\ src_md = alt_src_md
         /\ \A d \in 1..4 : src_md.strides[d] = alt_src_md.strides[d]
         /\ src_md.strides = AltStrides(shape)

\* C1, witness: the program's own shape has passed the comparison with the
\* strides {507, 1, 39, 3}.
C1_Witness ==
    /\ prog = "relu" /\ pc = "r_mem" /\ shape = ProgShape
    /\ src_md.strides = <<507, 1, 39, 3>>
    /\ alt_src_md.strides = <<507, 1, 39, 3>>

ValidIndex(s) == [n : 0..(s.N - 1), h : 0..(s.H - 1), w : 0..(s.W - 1),
                  c : 0..(s.C - 1)]

\* C2 (as claimed): for every valid index tuple (n,h,w,c) of the program's
\* shape the offset mapping returns n*stride_N + h*stride_H + w*stride_W +
\* c*stride_C.
C2_OffsetIsSumOfProducts ==
    (ReluStarted /\ shape = ProgShape) =>
        \A t \in ValidIndex(shape) :
            offset(shape, t.n, t.h, t.w, t.c) =
                t.n * stride_N(shape) + t.h * stride_H(shape)
                + t.w * stride_W(shape) + t.c * stride_C(shape)

\* C3 (as claimed): for the program's shape the offset mapping is injective
\* over the valid index tuples, and the initialisation loop writes
\* N*H*W*C distinct positions.
C3_OffsetInjective ==
    (ReluStarted /\ shape = ProgShape) =>
        /\ \A t, u \in ValidIndex(shape) :
              t # u => offset(shape, t.n, t.h, t.w, t.c)
                         # offset(shape, u.n, u.h, u.w, u.c)
        /\ Cardinality(InitOffsets(shape)) = image_size(shape)

\* C4 (as claimed): if the result check completes without raising, every
\* position p of the buffer has relu_image[p] = max(0, image[p]).
C4_CheckCoversEveryElement ==
    (prog = "relu" /\ shape = ProgShape
     /\ (pc = "r_ret" \/ (pc = "done" /\ exit_status = 0))) =>
        \A p \in 0..(image_size(shape) - 1) : relu_image[p] = Max0(image[p])

\* C5 (as claimed): a verification mismatch is a hard failure: once it is
\* detected no later inference run is executed and the process ends with a
\* non-zero exit status.
C5_MismatchIsHardFailure ==
    /\ reason = AccuracyMsg => (pc = "done" /\ exit_status \notin {-1, 0})
    /\ (prog = "matmul" /\ rc # 0) =>
         /\ pc \in {"m_main", "done"}
         /\ pc = "done" => exit_status # 0

MfpAllocated == prog = "mfp" /\ pc \notin {"f_pd", "f_user", "f_alloc"}
Executed(op) == \E i \in DOMAIN stream_log : stream_log[i].op = op

\* C6 (as claimed): for each operand whose current layout equals the
\* preferred one, no new buffer is allocated, no reorder is executed and
\* the user's buffer is the one passed to the step.
C6_NoReorderWhenLayoutsEqual ==
    MfpAllocated =>
        /\ ~need_reorder_src =>
             /\ conv_src_mem = "src_mem"
             /\ mem["conv_src_new"].state = "none"
             /\ ~Executed("reorder_src")
        /\ ~need_reorder_weights =>
             /\ conv_weights_mem = "weights_mem"
             /\ mem["conv_weights_new"].state = "none"
             /\ ~Executed("reorder_weights")
        /\ ~need_reorder_dst =>
             /\ pool_dst_mem = "dst_mem"
             /\ mem["pool_dst_new"].state = "none"
             /\ ~Executed("reorder_dst")

\* C7 (as claimed): for an input operand (source, weights) whose layout
\* differs from the preferred one, the convolution reads a new buffer of
\* the preferred layout that holds the reordered user data.
C7_ConvReadsReorderedInput ==
    (prog = "mfp" /\ Executed("conv")) =>
        /\ need_reorder_src =>
             /\ conv_src_mem = "conv_src_new"
             /\ mem[conv_src_mem].layout = conv_src_fmt
             /\ conv_read.src = [tensor |-> "src", fmt |-> conv_src_fmt]
        /\ need_reorder_weights =>
             /\ conv_weights_mem = "conv_weights_new"
             /\ mem[conv_weights_mem].layout = conv_weights_fmt
             /\ conv_read.weights =
                    [tensor |-> "weights", fmt |-> conv_weights_fmt]

\* The destination a reorder is declared with: reorder(from, to).
DeclaredTo(op) ==
    IF op = "reorder_src" THEN conv_src_mem
    ELSE IF op = "reorder_weights" THEN conv_weights_mem
    ELSE IF op = "reorder_dst" THEN "dst_mem"
    ELSE "B_s8_mem"

Reorders == {"reorder_src", "reorder_weights", "reorder_dst", "reorder_B"}

\* C8 (as claimed): every reorder executed writes only its declared
\* destination buffer, which is not its source; the source-data reorder
\* writes neither weights buffer.
C8_ReorderWritesDeclaredDestination ==
    \A i \in DOMAIN stream_log :
        stream_log[i].op \in Reorders =>
            /\ stream_log[i].to = {DeclaredTo(stream_log[i].op)}
            /\ stream_log[i].to \cap stream_log[i].from = {}
            /\ stream_log[i].op = "reorder_src" =>
                   stream_log[i].to \cap {"weights_mem", "conv_weights_new"} = {}

\* C9 (as claimed): every buffer written by a dispatched step is read, by
\* the host or by a later step, only after a wait on the stream.
C9_WaitBeforeEveryRead == UnsyncedReads(stream_log) = {}

ConvToPool == <<"conv", "pool", "conv_dst_new">>

\* C9 (amended): every producer -> consumer dependency has a wait between
\* the two, except the one from the convolution to the pooling: the pooling
\* is submitted to the same stream right after the convolution and reads
\* conv_dst_mem with no wait in between.
C9_WaitBeforeEveryReadButPool ==
    /\ UnsyncedReads(stream_log) \subseteq {ConvToPool}
    /\ \A j \in DOMAIN stream_log :
          stream_log[j].op = "pool" =>
              /\ j > 1 /\ stream_log[j - 1].op = "conv"
              /\ ConvToPool \in UnsyncedReads(stream_log)

\* C9, witness: a run of the propagation example with all three reorders
\* has ended, and the only read without a wait was the pooling's.
C9_Witness ==
    /\ prog = "mfp" /\ pc = "done"
    /\ need_reorder_src /\ need_reorder_weights /\ need_reorder_dst
    /\ Executed("reorder_src") /\ Executed("reorder_weights")
    /\ Executed("reorder_dst")
    /\ UnsyncedReads(stream_log) = {ConvToPool}

\* C10 (as claimed): a buffer is released only when no pending step
\* references it: when the tutorial function has returned, every step
\* submitted to the stream has been followed by a wait.
C10_NoPendingStepAtRelease ==
    /\ \A b \in BufIds :
          mem[b].state = "released" =>
              \A e \in Pending(stream_log) : b \notin (e.from \cup e.to)
    /\ pc = "done" => Pending(stream_log) = {}

\* The layouts of the buffers an entry of the stream reads and writes.
LayoutsOf(bufs) == {mem[b].layout : b \in bufs}

\* C11 (as claimed): for every combination of preferred layouts, every
\* buffer handed to a step has the layout the step's primitive descriptor
\* requires for that operand (conv_src_mem, conv_weights_mem, conv_dst_mem,
\* pool_dst_mem), and the source and the destination of every reorder
\* executed have different layouts.
C11_BuffersHaveRequiredLayouts ==
    MfpAllocated =>
        /\ mem[conv_src_mem].layout = conv_src_fmt
        /\ mem[conv_weights_mem].layout = conv_weights_fmt
        /\ mem[conv_dst_mem].layout = conv_dst_fmt
        /\ mem[pool_dst_mem].layout = pool_dst_fmt
        /\ \A i \in DOMAIN stream_log :
              stream_log[i].op \in Reorders =>
                  LayoutsOf(stream_log[i].from) \cap LayoutsOf(stream_log[i].to) = {}

====
